---- MODULE Spec2Model ----
(***************************************************************************)
(* Model of the serve command of serialtcp (src/cmd/serve.go, the final    *)
(* revision of the file, lines 259-489): ServeCmd.Run opens the serial     *)
(* port, opens the TCP listener and runs the accept loop; handleConnection *)
(* copies bytes in both directions between one connection and the port.    *)
(*                                                                         *)
(* The environment (serial device, TCP clients, process context) is        *)
(* modelled by the actions whose names start with Env.                     *)
(***************************************************************************)
EXTENDS Integers, Sequences, FiniteSets

\* ---- bounds ----
MaxConns == 2        \* TCP clients that ever connect
MaxAcceptErrs == 1   \* failed listener.Accept calls
MaxChunks == 1       \* bytes the serial device and the clients ever send

Conns == 1..MaxConns
Dirs == {"s2c", "c2s"}

\* ---- bytes ----
\* The k-th byte the serial device delivers and the k-th byte the clients
\* send: all different, so that a lost, repeated, reordered or misdirected
\* byte shows.
SerialByte(k) == <<"s", k>>
ClientByte(k) == <<"c", k>>

\* ---- error values ----
\* A Go error is modelled by the sequence of the leaf errors that
\* errors.Is/errors.As can find in it; nil is the empty sequence.
Nil == << >>
ErrOpen == <<"ErrOpen">>
ErrListen == <<"ErrListen">>
ErrNoDelay == <<"ErrNoDelay">>
ErrPortRead == <<"ErrPortRead">>
ErrPortWrite == <<"ErrPortWrite">>
ErrConnRead == <<"ErrConnRead">>
ErrConnWrite == <<"ErrConnWrite">>
ErrConnClose == <<"ErrConnClose">>

\* Faulty variant of Join: the later error replaces the earlier one.
Join_DropFirst(a, b) == IF b = Nil THEN a ELSE b

\* errors.Join(a, b): nil arguments are discarded, the result is nil when
\* both are nil, otherwise it wraps the non-nil arguments in order.
Join(a, b) == a \o b

\* e carries the leaf error l (errors.Is(e, l)).
Carries(e, l) == \E i \in 1..Len(e) : e[i] = l[1]

\* ---- flag values ----
\* A string is modelled by the sequence of its characters.
UpperCase == <<"A", "B", "C", "D", "E", "F", "G", "H", "I", "J", "K", "L", "M",
               "N", "O", "P", "Q", "R", "S", "T", "U", "V", "W", "X", "Y", "Z">>
LowerCase == <<"a", "b", "c", "d", "e", "f", "g", "h", "i", "j", "k", "l", "m",
               "n", "o", "p", "q", "r", "s", "t", "u", "v", "w", "x", "y", "z">>

IsUpper(ch) == \E i \in 1..Len(UpperCase) : UpperCase[i] = ch
IsLower(ch) == \E i \in 1..Len(LowerCase) : LowerCase[i] = ch

ToLowerChar(ch) ==
    IF IsUpper(ch)
    THEN LowerCase[CHOOSE i \in 1..Len(UpperCase) : UpperCase[i] = ch]
    ELSE ch

ToUpperChar(ch) ==
    IF IsLower(ch)
    THEN UpperCase[CHOOSE i \in 1..Len(LowerCase) : LowerCase[i] = ch]
    ELSE ch

\* strings.ToLower(s)
ToLower(s) == [i \in 1..Len(s) |-> ToLowerChar(s[i])]

\* strconv.Itoa(n) for n >= 0
Digits == <<"0", "1", "2", "3", "4", "5", "6", "7", "8", "9">>

RECURSIVE Itoa(_)
Itoa(n) ==
    IF n < 10 THEN <<Digits[n + 1]>>
    ELSE Itoa(n \div 10) \o <<Digits[(n % 10) + 1]>>

\* serial.Parity and serial.StopBits
NoParity == 0
OddParity == 1
EvenParity == 2
MarkParity == 3
SpaceParity == 4
OneStopBit == 0
OnePointFiveStopBits == 1
TwoStopBits == 2

baudRateDefault == 115200
dataBitsDefault == 8

ErrInvalidParity == <<"invalid parity value">>
ErrInvalidStopBits == <<"invalid stop bits value">>

\* Faulty variant of ParityString: no parity is printed as "none".
ParityString_None(p) ==
    CASE p = NoParity -> <<"n", "o", "n", "e">>
      [] p = OddParity -> <<"o", "d", "d">>
      [] p = EvenParity -> <<"e", "v", "e", "n">>
      [] p = MarkParity -> <<"m", "a", "r", "k">>
      [] p = SpaceParity -> <<"s", "p", "a", "c", "e">>
      [] OTHER -> Itoa(p)

\* ParityValue.String
ParityString(p) ==
    CASE p = NoParity -> <<"n", "o">>
      [] p = OddParity -> <<"o", "d", "d">>
      [] p = EvenParity -> <<"e", "v", "e", "n">>
      [] p = MarkParity -> <<"m", "a", "r", "k">>
      [] p = SpaceParity -> <<"s", "p", "a", "c", "e">>
      [] OTHER -> Itoa(p)

\* Faulty variant of ParitySetValue: an unrecognized string stores no parity.
ParitySetValue_Default(p, s) ==
    LET l == ToLower(s) IN
    CASE l = <<"n", "o">> -> NoParity
      [] l = <<"o", "d", "d">> -> OddParity
      [] l = <<"e", "v", "e", "n">> -> EvenParity
      [] l = <<"m", "a", "r", "k">> -> MarkParity
      [] l = <<"s", "p", "a", "c", "e">> -> SpaceParity
      [] OTHER -> NoParity

\* ParityValue.Set: the value of *p after p.Set(s)
ParitySetValue(p, s) ==
    LET l == ToLower(s) IN
    CASE l = <<"n", "o">> -> NoParity
      [] l = <<"o", "d", "d">> -> OddParity
      [] l = <<"e", "v", "e", "n">> -> EvenParity
      [] l = <<"m", "a", "r", "k">> -> MarkParity
      [] l = <<"s", "p", "a", "c", "e">> -> SpaceParity
      [] OTHER -> p

\* ParityValue.Set: the error p.Set(s) returns
ParitySetErr(s) ==
    LET l == ToLower(s) IN
    CASE l = <<"n", "o">> -> Nil
      [] l = <<"o", "d", "d">> -> Nil
      [] l = <<"e", "v", "e", "n">> -> Nil
      [] l = <<"m", "a", "r", "k">> -> Nil
      [] l = <<"s", "p", "a", "c", "e">> -> Nil
      [] OTHER -> ErrInvalidParity

\* StopBitsValue.String
StopBitsString(b) ==
    CASE b = OneStopBit -> <<"1">>
      [] b = OnePointFiveStopBits -> <<"1", ".", "5">>
      [] b = TwoStopBits -> <<"2">>
      [] OTHER -> Itoa(b)

\* StopBitsValue.Set: the value of *s after s.Set(str)
StopBitsSetValue(b, str) ==
    LET l == ToLower(str) IN
    CASE l = <<"1">> -> OneStopBit
      [] l = <<"1", ".", "5">> -> OnePointFiveStopBits
      [] l = <<"2">> -> TwoStopBits
      [] OTHER -> b

\* StopBitsValue.Set: the error s.Set(str) returns
StopBitsSetErr(str) ==
    LET l == ToLower(str) IN
    CASE l = <<"1">> -> Nil
      [] l = <<"1", ".", "5">> -> Nil
      [] l = <<"2">> -> Nil
      [] OTHER -> ErrInvalidStopBits

VARIABLES
    pc,             \* position of ServeCmd.Run
    port,           \* Serial Handle: "unopened", "open", "failed", "closed"
    portCloses,     \* number of port.Close() calls
    listener,       \* Listener: "none", "open", "failed", "closed"
    listenerCloses, \* number of listener.Close() calls
    runErr,         \* error Run returned to its caller
    acceptErrs,     \* number of failed Accept calls so far
    backlog,        \* clients connected to the listener and not yet accepted
    accepted,       \* number of connections Accept has returned
    hpc,            \* per connection: position of handleConnection
    task,           \* per connection and direction: position of the copy task
    taskErr,        \* per connection and direction: result of io.Copy
    errCh,          \* per connection: the buffered channel errCh
    err,            \* per connection: handleConnection's named result err
    connCloses,     \* per connection: number of conn.Close() calls
    closeErr,       \* per connection: what conn.Close() returned
    connLog,        \* per connection: events logged by the connection's logger
    buf,            \* per connection and direction: bytes io.Copy has read
                    \* and not yet written
    clientClosed,   \* per connection: the client closed its side
    clientData,     \* per connection: bytes from the client that wait to be read
    clientSent,     \* number of bytes the clients have sent
    clientRecv,     \* per connection: bytes the client has received
    serialData,     \* bytes from the serial device that wait to be read
    serialSent,     \* number of bytes the serial device has delivered
    serialRecv,     \* bytes the serial device has received
    ctxDone,        \* the command's context has been cancelled
    parity,         \* the flag variable parity (a ParityValue)
    stopBits,       \* the flag variable stopBits (a StopBitsValue)
    baudRate,       \* the flag variable baudRate
    dataBits,       \* the flag variable dataBits
    flagName,       \* the flag whose value was set last
    flagTok,        \* the string passed to the last Set call
    flagErr         \* the error the last Set call returned

vars == <<pc, port, portCloses, listener, listenerCloses, runErr, acceptErrs,
          backlog, accepted, hpc, task, taskErr, errCh, err, connCloses,
          closeErr, connLog, buf, clientClosed, clientData, clientSent,
          clientRecv, serialData, serialSent, serialRecv, ctxDone, parity,
          stopBits, baudRate, dataBits, flagName, flagTok, flagErr>>

runVars == <<pc, port, portCloses, listener, listenerCloses, runErr, acceptErrs,
            accepted>>
connVars == <<hpc, task, taskErr, errCh, err, connCloses, closeErr,
             connLog, buf>>
envVars == <<backlog, clientClosed, clientData, clientSent, clientRecv,
            serialData, serialSent, serialRecv, ctxDone>>

flagVars == <<parity, stopBits, baudRate, dataBits, flagName, flagTok, flagErr>>

\* The state when Run is entered with every flag at its default.
Init ==
    /\ pc = "open"
    /\ parity = NoParity
    /\ stopBits = OneStopBit
    /\ baudRate = baudRateDefault
    /\ dataBits = dataBitsDefault
    /\ flagName = ""
    /\ flagTok = << >>
    /\ flagErr = Nil
    /\ port = "unopened"
    /\ portCloses = 0
    /\ listener = "none"
    /\ listenerCloses = 0
    /\ runErr = Nil
    /\ acceptErrs = 0
    /\ backlog = 0
    /\ accepted = 0
    /\ hpc = [c \in Conns |-> "idle"]
    /\ task = [c \in Conns |-> [d \in Dirs |-> "idle"]]
    /\ taskErr = [c \in Conns |-> [d \in Dirs |-> Nil]]
    /\ errCh = [c \in Conns |-> << >>]
    /\ err = [c \in Conns |-> Nil]
    /\ connCloses = [c \in Conns |-> 0]
    /\ closeErr = [c \in Conns |-> Nil]
    /\ connLog = [c \in Conns |-> << >>]
    /\ clientClosed = [c \in Conns |-> FALSE]
    /\ buf = [c \in Conns |-> [d \in Dirs |-> << >>]]
    /\ clientData = [c \in Conns |-> << >>]
    /\ clientSent = 0
    /\ clientRecv = [c \in Conns |-> << >>]
    /\ serialData = << >>
    /\ serialSent = 0
    /\ serialRecv = << >>
    /\ ctxDone = FALSE

\* ---- ServeCmd.Run ----

\* port, err := serial.Open(portName, mode) succeeds; defer port.Close().
OpenOK ==
    /\ pc = "open"
    /\ port' = "open"
    /\ pc' = "listen"
    /\ UNCHANGED <<portCloses, listener, listenerCloses, runErr, acceptErrs>>
    /\ UNCHANGED connVars /\ UNCHANGED envVars
    /\ UNCHANGED accepted
    /\ UNCHANGED flagVars

\* Faulty variant of OpenFail: the error is ignored and Run goes on to listen.
OpenFail_Continue ==
    /\ pc = "open"
    /\ port' = "failed"
    /\ pc' = "listen"
    /\ UNCHANGED <<portCloses, listener, listenerCloses, runErr, acceptErrs>>
    /\ UNCHANGED connVars /\ UNCHANGED envVars
    /\ UNCHANGED accepted
    /\ UNCHANGED flagVars

\* serial.Open fails: the error is logged and returned; nothing is deferred.
OpenFail ==
    /\ pc = "open"
    /\ port' = "failed"
    /\ runErr' = ErrOpen
    /\ pc' = "returned"
    /\ UNCHANGED <<portCloses, listener, listenerCloses, acceptErrs>>
    /\ UNCHANGED connVars /\ UNCHANGED envVars
    /\ UNCHANGED accepted
    /\ UNCHANGED flagVars

\* listener, err := net.Listen("tcp", address) succeeds; defer
\* listener.Close(); the for loop is entered.
ListenOK ==
    /\ pc = "listen"
    /\ listener' = "open"
    /\ pc' = "accept"
    /\ UNCHANGED <<port, portCloses, listenerCloses, runErr, acceptErrs>>
    /\ UNCHANGED connVars /\ UNCHANGED envVars
    /\ UNCHANGED accepted
    /\ UNCHANGED flagVars

\* net.Listen fails: err is set and the return statement is executed; the
\* deferred port.Close() is still to run.
ListenFail ==
    /\ pc = "listen"
    /\ listener' = "failed"
    /\ pc' = "deferPort"
    /\ UNCHANGED <<port, portCloses, listenerCloses, runErr, acceptErrs>>
    /\ UNCHANGED connVars /\ UNCHANGED envVars
    /\ UNCHANGED accepted
    /\ UNCHANGED flagVars

\* Faulty variant of DeferPortClose: Run returns the listen error without
\* closing the port.
DeferPortClose_Skip ==
    /\ pc = "deferPort"
    /\ runErr' = ErrListen
    /\ pc' = "returned"
    /\ UNCHANGED <<port, portCloses, listener, listenerCloses, acceptErrs>>
    /\ UNCHANGED connVars /\ UNCHANGED envVars
    /\ UNCHANGED accepted
    /\ UNCHANGED flagVars

\* defer func() { errors.Join(err, port.Close()) }() runs, its result is
\* discarded, and Run hands the listen error to its caller.
DeferPortClose ==
    /\ pc = "deferPort"
    /\ port' = "closed"
    /\ portCloses' = portCloses + 1
    /\ runErr' = ErrListen
    /\ pc' = "returned"
    /\ UNCHANGED <<listener, listenerCloses, acceptErrs>>
    /\ UNCHANGED connVars /\ UNCHANGED envVars
    /\ UNCHANGED accepted
    /\ UNCHANGED flagVars

\* Faulty variant of AcceptFail: the Accept error ends the loop and the
\* deferred closes run.
AcceptFail_Return ==
    /\ pc = "accept"
    /\ acceptErrs < MaxAcceptErrs
    /\ acceptErrs' = acceptErrs + 1
    /\ listener' = "closed"
    /\ listenerCloses' = listenerCloses + 1
    /\ port' = "closed"
    /\ portCloses' = portCloses + 1
    /\ pc' = "returned"
    /\ UNCHANGED runErr
    /\ UNCHANGED connVars /\ UNCHANGED envVars
    /\ UNCHANGED accepted
    /\ UNCHANGED flagVars

\* conn, err := listener.Accept() fails: the error is logged and the loop
\* continues with the next Accept.
AcceptFail ==
    /\ pc = "accept"
    /\ acceptErrs < MaxAcceptErrs
    /\ acceptErrs' = acceptErrs + 1
    /\ UNCHANGED <<pc, port, portCloses, listener, listenerCloses, runErr>>
    /\ UNCHANGED connVars /\ UNCHANGED envVars
    /\ UNCHANGED accepted
    /\ UNCHANGED flagVars

\* Faulty variant of AcceptOK: "Accepted" is not logged.
AcceptOK_NoLog(c) ==
    /\ pc = "accept"
    /\ listener = "open"
    /\ backlog > 0
    /\ c = accepted + 1
    /\ backlog' = backlog - 1
    /\ accepted' = c
    /\ hpc' = [hpc EXCEPT ![c] = "nodelay"]
    /\ pc' = "handle"
    /\ UNCHANGED <<port, portCloses, listener, listenerCloses, runErr, acceptErrs>>
    /\ UNCHANGED <<task, taskErr, errCh, err, connCloses, closeErr, connLog, buf>>
    /\ UNCHANGED <<clientClosed, clientData, clientSent, clientRecv, serialData,
                   serialSent, serialRecv, ctxDone>>
    /\ UNCHANGED flagVars

\* Variant of AcceptOK that starts handleConnection with a go statement and
\* goes straight back to Accept.
AcceptOK_Go(c) ==
    /\ pc = "accept"
    /\ listener = "open"
    /\ backlog > 0
    /\ c = accepted + 1
    /\ backlog' = backlog - 1
    /\ accepted' = c
    /\ hpc' = [hpc EXCEPT ![c] = "nodelay"]
    /\ pc' = "accept"
    /\ UNCHANGED <<port, portCloses, listener, listenerCloses, runErr, acceptErrs>>
    /\ UNCHANGED <<task, taskErr, errCh, err, connCloses, closeErr>>
    /\ UNCHANGED <<clientClosed, clientData, serialData, serialSent, ctxDone>>
    /\ connLog' = [connLog EXCEPT ![c] = Append(@, "Accepted")]
    /\ UNCHANGED buf
    /\ UNCHANGED <<clientSent, clientRecv, serialRecv>>
    /\ UNCHANGED flagVars

\* listener.Accept() returns the next waiting connection; "Accepted" is
\* logged and handleConnection(ctx, conn, port) is called: Run is inside
\* that call until it returns.
AcceptOK(c) ==
    /\ pc = "accept"
    /\ listener = "open"
    /\ backlog > 0
    /\ c = accepted + 1
    /\ backlog' = backlog - 1
    /\ accepted' = c
    /\ hpc' = [hpc EXCEPT ![c] = "nodelay"]
    /\ pc' = "handle"
    /\ UNCHANGED <<port, portCloses, listener, listenerCloses, runErr, acceptErrs>>
    /\ UNCHANGED <<task, taskErr, errCh, err, connCloses, closeErr>>
    /\ UNCHANGED <<clientClosed, clientData, serialData, serialSent, ctxDone>>
    /\ connLog' = [connLog EXCEPT ![c] = Append(@, "Accepted")]
    /\ UNCHANGED buf
    /\ UNCHANGED <<clientSent, clientRecv, serialRecv>>
    /\ UNCHANGED flagVars

\* ---- handleConnection ----

\* tcpConn.SetNoDelay(true) succeeds; errCh is made and both copy tasks are
\* started.
SetNoDelayOK(c) ==
    /\ hpc[c] = "nodelay"
    /\ errCh' = [errCh EXCEPT ![c] = << >>]
    /\ task' = [task EXCEPT ![c] = [d \in Dirs |-> "read"]]
    /\ hpc' = [hpc EXCEPT ![c] = "recv1"]
    /\ UNCHANGED <<taskErr, err, connCloses, closeErr>>
    /\ UNCHANGED runVars /\ UNCHANGED envVars
    /\ connLog' = [connLog EXCEPT ![c] = @ \o <<"Setting TCP no delay", "Copying I/O">>]
    /\ UNCHANGED buf
    /\ UNCHANGED flagVars

\* tcpConn.SetNoDelay(true) fails: handleConnection returns the wrapped
\* error at once; the accept loop logs it and goes back to Accept.
SetNoDelayFail(c) ==
    /\ hpc[c] = "nodelay"
    /\ hpc' = [hpc EXCEPT ![c] = "returned"]
    /\ pc' = "accept"
    /\ UNCHANGED <<port, portCloses, listener, listenerCloses, runErr, acceptErrs>>
    /\ UNCHANGED <<task, taskErr, errCh, err, connCloses, closeErr>>
    /\ UNCHANGED envVars
    /\ UNCHANGED accepted
    /\ connLog' = [connLog EXCEPT ![c] =
            @ \o <<"Setting TCP no delay", "Failed to handle connection">>]
    /\ UNCHANGED buf
    /\ UNCHANGED flagVars

\* Faulty variant of Recv1: handleConnection closes the connection after the
\* first result.
Recv1_Early(c) ==
    /\ hpc[c] = "recv1"
    /\ Len(errCh[c]) > 0
    /\ err' = [err EXCEPT ![c] = Head(errCh[c])]
    /\ errCh' = [errCh EXCEPT ![c] = Tail(errCh[c])]
    /\ hpc' = [hpc EXCEPT ![c] = "close"]
    /\ UNCHANGED <<task, taskErr, connCloses, closeErr>>
    /\ UNCHANGED runVars /\ UNCHANGED envVars
    /\ UNCHANGED connLog
    /\ UNCHANGED buf
    /\ UNCHANGED flagVars

\* err = <-errCh
Recv1(c) ==
    /\ hpc[c] = "recv1"
    /\ Len(errCh[c]) > 0
    /\ err' = [err EXCEPT ![c] = Head(errCh[c])]
    /\ errCh' = [errCh EXCEPT ![c] = Tail(errCh[c])]
    /\ hpc' = [hpc EXCEPT ![c] = "recv2"]
    /\ UNCHANGED <<task, taskErr, connCloses, closeErr>>
    /\ UNCHANGED runVars /\ UNCHANGED envVars
    /\ UNCHANGED connLog
    /\ UNCHANGED buf
    /\ UNCHANGED flagVars

\* err = errors.Join(err, <-errCh)
Recv2(c) ==
    /\ hpc[c] = "recv2"
    /\ Len(errCh[c]) > 0
    /\ err' = [err EXCEPT ![c] = Join(err[c], Head(errCh[c]))]
    /\ errCh' = [errCh EXCEPT ![c] = Tail(errCh[c])]
    /\ hpc' = [hpc EXCEPT ![c] = "close"]
    /\ UNCHANGED <<task, taskErr, connCloses, closeErr>>
    /\ UNCHANGED runVars /\ UNCHANGED envVars
    /\ UNCHANGED connLog
    /\ UNCHANGED buf
    /\ UNCHANGED flagVars

\* Faulty variant of ConnClose: the copier also closes the shared port.
ConnClose_ClosePort(c, e) ==
    /\ hpc[c] = "close"
    /\ connCloses' = [connCloses EXCEPT ![c] = @ + 1]
    /\ closeErr' = [closeErr EXCEPT ![c] = e]
    /\ err' = [err EXCEPT ![c] = Join(@, e)]
    /\ hpc' = [hpc EXCEPT ![c] = "ret"]
    /\ port' = "closed"
    /\ portCloses' = portCloses + 1
    /\ UNCHANGED <<pc, listener, listenerCloses, runErr, acceptErrs>>
    /\ clientData' = [clientData EXCEPT ![c] = << >>]
    /\ clientClosed' = [clientClosed EXCEPT ![c] = TRUE]
    /\ clientRecv' = [clientRecv EXCEPT ![c] = << >>]
    /\ UNCHANGED <<task, taskErr, errCh, connLog, buf, accepted>>
    /\ UNCHANGED <<backlog, clientSent, serialData, serialSent, serialRecv,
                   ctxDone>>
    /\ UNCHANGED flagVars

\* err = errors.Join(err, conn.Close()), where conn.Close() returns e.  The
\* socket is released: bytes of the client that were not read are discarded,
\* the connection is over for the client too and what it had received is no
\* longer observed.
ConnClose(c, e) ==
    /\ hpc[c] = "close"
    /\ connCloses' = [connCloses EXCEPT ![c] = @ + 1]
    /\ closeErr' = [closeErr EXCEPT ![c] = e]
    /\ err' = [err EXCEPT ![c] = Join(@, e)]
    /\ hpc' = [hpc EXCEPT ![c] = "ret"]
    /\ clientData' = [clientData EXCEPT ![c] = << >>]
    /\ clientClosed' = [clientClosed EXCEPT ![c] = TRUE]
    /\ clientRecv' = [clientRecv EXCEPT ![c] = << >>]
    /\ UNCHANGED <<task, taskErr, errCh, connLog, buf>>
    /\ UNCHANGED runVars
    /\ UNCHANGED <<backlog, clientSent, serialData, serialSent, serialRecv,
                   ctxDone>>
    /\ UNCHANGED flagVars

\* Faulty variant of Return: handleConnection closes the port it was given
\* when it returns.
Return_ClosePort(c) ==
    /\ hpc[c] = "ret"
    /\ hpc' = [hpc EXCEPT ![c] = "returned"]
    /\ err' = [err EXCEPT ![c] = Nil]
    /\ taskErr' = [taskErr EXCEPT ![c] = [d \in Dirs |-> Nil]]
    /\ closeErr' = [closeErr EXCEPT ![c] = Nil]
    /\ connLog' = [connLog EXCEPT ![c] =
            @ \o <<"Connection closed">>
              \o (IF err[c] # Nil THEN <<"Failed to handle connection">> ELSE << >>)]
    /\ pc' = "accept"
    /\ port' = "closed"
    /\ portCloses' = portCloses + 1
    /\ UNCHANGED <<listener, listenerCloses, runErr, acceptErrs, accepted>>
    /\ UNCHANGED <<task, errCh, connCloses, buf>>
    /\ UNCHANGED envVars
    /\ UNCHANGED flagVars

\* Faulty variant of Return: the accept loop returns a non-nil err of
\* handleConnection to Run's caller, and the deferred closes run.
Return_Propagate(c) ==
    /\ hpc[c] = "ret"
    /\ hpc' = [hpc EXCEPT ![c] = "returned"]
    /\ err' = [err EXCEPT ![c] = Nil]
    /\ taskErr' = [taskErr EXCEPT ![c] = [d \in Dirs |-> Nil]]
    /\ closeErr' = [closeErr EXCEPT ![c] = Nil]
    /\ connLog' = [connLog EXCEPT ![c] =
            @ \o <<"Connection closed">>
              \o (IF err[c] # Nil THEN <<"Failed to handle connection">> ELSE << >>)]
    /\ IF err[c] # Nil
       THEN /\ pc' = "returned"
            /\ runErr' = err[c]
            /\ listener' = "closed"
            /\ listenerCloses' = listenerCloses + 1
            /\ port' = "closed"
            /\ portCloses' = portCloses + 1
       ELSE /\ pc' = "accept"
            /\ UNCHANGED <<port, portCloses, listener, listenerCloses, runErr>>
    /\ UNCHANGED <<task, errCh, connCloses>>
    /\ UNCHANGED envVars
    /\ UNCHANGED <<accepted, acceptErrs>>
    /\ UNCHANGED buf
    /\ UNCHANGED flagVars

\* "Connection closed" is logged and handleConnection returns err; the
\* accept loop logs a non-nil err and goes back to Accept.  The locals of
\* the call (err, errCh, the results of the finished copy tasks) are gone.
Return(c) ==
    /\ hpc[c] = "ret"
    /\ hpc' = [hpc EXCEPT ![c] = "returned"]
    /\ err' = [err EXCEPT ![c] = Nil]
    /\ taskErr' = [taskErr EXCEPT ![c] = [d \in Dirs |-> Nil]]
    /\ closeErr' = [closeErr EXCEPT ![c] = Nil]
    /\ pc' = "accept"
    /\ UNCHANGED <<port, portCloses, listener, listenerCloses, runErr, acceptErrs>>
    /\ UNCHANGED <<task, errCh, connCloses>>
    /\ UNCHANGED envVars
    /\ UNCHANGED accepted
    /\ connLog' = [connLog EXCEPT ![c] =
            @ \o <<"Connection closed">>
              \o (IF err[c] # Nil THEN <<"Failed to handle connection">> ELSE << >>)]
    /\ UNCHANGED buf
    /\ UNCHANGED flagVars

\* ---- the copy task io.Copy(conn, port): serial to connection ----

\* Faulty variant of PortRead: the bytes that wait in the port and did not
\* fit the read are dropped.
PortRead_DropRest(c) ==
    /\ task[c]["s2c"] = "read"
    /\ port = "open"
    /\ \E n \in 1..Len(serialData) :
        buf' = [buf EXCEPT ![c]["s2c"] = SubSeq(serialData, 1, n)]
    /\ serialData' = << >>
    /\ task' = [task EXCEPT ![c]["s2c"] = "write"]
    /\ UNCHANGED <<hpc, taskErr, errCh, err, connCloses, closeErr, connLog>>
    /\ UNCHANGED runVars
    /\ UNCHANGED <<backlog, clientClosed, clientData, clientSent, clientRecv,
                   serialSent, serialRecv, ctxDone>>
    /\ UNCHANGED flagVars

\* port.Read returns n of the bytes that wait in the port, in order.
PortRead(c) ==
    /\ task[c]["s2c"] = "read"
    /\ port = "open"
    /\ \E n \in 1..Len(serialData) :
        /\ buf' = [buf EXCEPT ![c]["s2c"] = SubSeq(serialData, 1, n)]
        /\ serialData' = SubSeq(serialData, n + 1, Len(serialData))
    /\ task' = [task EXCEPT ![c]["s2c"] = "write"]
    /\ UNCHANGED <<hpc, taskErr, errCh, err, connCloses, closeErr, connLog>>
    /\ UNCHANGED runVars
    /\ UNCHANGED <<backlog, clientClosed, clientData, clientSent, clientRecv,
                   serialSent, serialRecv, ctxDone>>
    /\ UNCHANGED flagVars

\* port.Read fails (device error, or the port was closed): io.Copy returns
\* the error.
PortReadErr(c) ==
    /\ task[c]["s2c"] = "read"
    /\ taskErr' = [taskErr EXCEPT ![c]["s2c"] = ErrPortRead]
    /\ task' = [task EXCEPT ![c]["s2c"] = "send"]
    /\ UNCHANGED <<hpc, buf, errCh, err, connCloses, closeErr, connLog>>
    /\ UNCHANGED runVars /\ UNCHANGED envVars
    /\ UNCHANGED flagVars

\* port.Read reports io.EOF (the io.Reader behind serial.Port has reached
\* its end of stream): io.Copy returns nil.
PortReadEOF(c) ==
    /\ task[c]["s2c"] = "read"
    /\ taskErr' = [taskErr EXCEPT ![c]["s2c"] = Nil]
    /\ task' = [task EXCEPT ![c]["s2c"] = "send"]
    /\ UNCHANGED <<hpc, buf, errCh, err, connCloses, closeErr, connLog>>
    /\ UNCHANGED runVars /\ UNCHANGED envVars
    /\ UNCHANGED flagVars

\* conn.Write of the bytes read succeeds, the client gets them: io.Copy
\* reads again.
ConnWrite(c) ==
    /\ task[c]["s2c"] = "write"
    /\ connCloses[c] = 0
    /\ clientRecv' = [clientRecv EXCEPT ![c] = @ \o buf[c]["s2c"]]
    /\ buf' = [buf EXCEPT ![c]["s2c"] = << >>]
    /\ task' = [task EXCEPT ![c]["s2c"] = "read"]
    /\ UNCHANGED <<hpc, taskErr, errCh, err, connCloses, closeErr, connLog>>
    /\ UNCHANGED runVars
    /\ UNCHANGED <<backlog, clientClosed, clientData, clientSent, serialData,
                   serialSent, serialRecv, ctxDone>>
    /\ UNCHANGED flagVars

\* conn.Write fails (the peer is gone, the network failed, or the
\* connection was closed) after n of the bytes were written: io.Copy returns
\* the error.
ConnWriteErr(c) ==
    /\ task[c]["s2c"] = "write"
    /\ \E n \in 0..(Len(buf[c]["s2c"]) - 1) :
        clientRecv' = [clientRecv EXCEPT ![c] = @ \o SubSeq(buf[c]["s2c"], 1, n)]
    /\ buf' = [buf EXCEPT ![c]["s2c"] = << >>]
    /\ taskErr' = [taskErr EXCEPT ![c]["s2c"] = ErrConnWrite]
    /\ task' = [task EXCEPT ![c]["s2c"] = "send"]
    /\ UNCHANGED <<hpc, errCh, err, connCloses, closeErr, connLog>>
    /\ UNCHANGED runVars
    /\ UNCHANGED <<backlog, clientClosed, clientData, clientSent, serialData,
                   serialSent, serialRecv, ctxDone>>
    /\ UNCHANGED flagVars

\* ---- the copy task io.Copy(port, conn): connection to serial ----

\* conn.Read returns n of the bytes the client sent, in order.
ConnRead(c) ==
    /\ task[c]["c2s"] = "read"
    /\ connCloses[c] = 0
    /\ \E n \in 1..Len(clientData[c]) :
        /\ buf' = [buf EXCEPT ![c]["c2s"] = SubSeq(clientData[c], 1, n)]
        /\ clientData' = [clientData EXCEPT ![c] = SubSeq(@, n + 1, Len(@))]
    /\ task' = [task EXCEPT ![c]["c2s"] = "write"]
    /\ UNCHANGED <<hpc, taskErr, errCh, err, connCloses, closeErr, connLog>>
    /\ UNCHANGED runVars
    /\ UNCHANGED <<backlog, clientClosed, clientSent, clientRecv, serialData,
                   serialSent, serialRecv, ctxDone>>
    /\ UNCHANGED flagVars

\* conn.Read returns io.EOF after the client closed its side and all its
\* bytes were read: io.Copy returns nil.
ConnReadEOF(c) ==
    /\ task[c]["c2s"] = "read"
    /\ connCloses[c] = 0
    /\ clientClosed[c]
    /\ clientData[c] = << >>
    /\ taskErr' = [taskErr EXCEPT ![c]["c2s"] = Nil]
    /\ task' = [task EXCEPT ![c]["c2s"] = "send"]
    /\ UNCHANGED <<hpc, buf, errCh, err, connCloses, closeErr, connLog>>
    /\ UNCHANGED runVars /\ UNCHANGED envVars
    /\ UNCHANGED flagVars

\* conn.Read fails (connection reset, network failure, connection closed).
ConnReadErr(c) ==
    /\ task[c]["c2s"] = "read"
    /\ taskErr' = [taskErr EXCEPT ![c]["c2s"] = ErrConnRead]
    /\ task' = [task EXCEPT ![c]["c2s"] = "send"]
    /\ UNCHANGED <<hpc, buf, errCh, err, connCloses, closeErr, connLog>>
    /\ UNCHANGED runVars /\ UNCHANGED envVars
    /\ UNCHANGED flagVars

\* port.Write of the bytes read succeeds, the serial device gets them:
\* io.Copy reads again.
PortWrite(c) ==
    /\ task[c]["c2s"] = "write"
    /\ port = "open"
    /\ serialRecv' = serialRecv \o buf[c]["c2s"]
    /\ buf' = [buf EXCEPT ![c]["c2s"] = << >>]
    /\ task' = [task EXCEPT ![c]["c2s"] = "read"]
    /\ UNCHANGED <<hpc, taskErr, errCh, err, connCloses, closeErr, connLog>>
    /\ UNCHANGED runVars
    /\ UNCHANGED <<backlog, clientClosed, clientData, clientSent, clientRecv,
                   serialData, serialSent, ctxDone>>
    /\ UNCHANGED flagVars

\* port.Write fails after n of the bytes were written: io.Copy returns the
\* error.
PortWriteErr(c) ==
    /\ task[c]["c2s"] = "write"
    /\ \E n \in 0..(Len(buf[c]["c2s"]) - 1) :
        serialRecv' = serialRecv \o SubSeq(buf[c]["c2s"], 1, n)
    /\ buf' = [buf EXCEPT ![c]["c2s"] = << >>]
    /\ taskErr' = [taskErr EXCEPT ![c]["c2s"] = ErrPortWrite]
    /\ task' = [task EXCEPT ![c]["c2s"] = "send"]
    /\ UNCHANGED <<hpc, errCh, err, connCloses, closeErr, connLog>>
    /\ UNCHANGED runVars
    /\ UNCHANGED <<backlog, clientClosed, clientData, clientSent, clientRecv,
                   serialData, serialSent, ctxDone>>
    /\ UNCHANGED flagVars

\* errCh <- err, in either copy task; the send blocks while the channel
\* holds cap(errCh) = 2 values.
ErrChCap == 2

\* Faulty variant of Send: the copy task sends its result twice.
Send_Twice(c, d) ==
    /\ task[c][d] = "send"
    /\ Len(errCh[c]) < ErrChCap
    /\ errCh' = [errCh EXCEPT ![c] = @ \o <<taskErr[c][d], taskErr[c][d]>>]
    /\ task' = [task EXCEPT ![c][d] = "done"]
    /\ UNCHANGED <<hpc, taskErr, err, connCloses, closeErr, connLog, buf>>
    /\ UNCHANGED runVars /\ UNCHANGED envVars
    /\ UNCHANGED flagVars

Send(c, d) ==
    /\ task[c][d] = "send"
    /\ Len(errCh[c]) < ErrChCap
    /\ errCh' = [errCh EXCEPT ![c] = Append(@, taskErr[c][d])]
    /\ task' = [task EXCEPT ![c][d] = "done"]
    /\ UNCHANGED <<hpc, taskErr, err, connCloses, closeErr>>
    /\ UNCHANGED runVars /\ UNCHANGED envVars
    /\ UNCHANGED connLog
    /\ UNCHANGED buf
    /\ UNCHANGED flagVars

\* ---- environment ----

\* A TCP client connects to the listening socket.
EnvClientConnect ==
    /\ listener = "open"
    /\ accepted + backlog < MaxConns
    /\ backlog' = backlog + 1
    /\ UNCHANGED <<clientClosed, clientData, serialData, serialSent, ctxDone>>
    /\ UNCHANGED runVars /\ UNCHANGED connVars
    /\ UNCHANGED <<clientSent, clientRecv, serialRecv>>
    /\ UNCHANGED flagVars

\* The client of a connection that is being handled sends its next byte.
EnvClientSend(c) ==
    /\ c <= accepted
    /\ hpc[c] # "returned"
    /\ ~clientClosed[c]
    /\ clientSent + serialSent < MaxChunks
    /\ clientData' = [clientData EXCEPT ![c] = Append(@, ClientByte(clientSent + 1))]
    /\ clientSent' = clientSent + 1
    /\ UNCHANGED <<backlog, clientClosed, clientRecv, serialData, serialSent,
                   serialRecv, ctxDone>>
    /\ UNCHANGED runVars /\ UNCHANGED connVars
    /\ UNCHANGED flagVars

\* The client of a connection that is being handled closes its side.
EnvClientClose(c) ==
    /\ c <= accepted
    /\ hpc[c] # "returned"
    /\ ~clientClosed[c]
    /\ clientClosed' = [clientClosed EXCEPT ![c] = TRUE]
    /\ UNCHANGED <<backlog, clientData, clientSent, clientRecv, serialData,
                   serialSent, serialRecv, ctxDone>>
    /\ UNCHANGED runVars /\ UNCHANGED connVars
    /\ UNCHANGED flagVars

\* The serial device delivers its next byte.
EnvSerialDeliver ==
    /\ port = "open"
    /\ clientSent + serialSent < MaxChunks
    /\ serialData' = Append(serialData, SerialByte(serialSent + 1))
    /\ serialSent' = serialSent + 1
    /\ UNCHANGED <<backlog, clientClosed, clientData, clientSent, clientRecv,
                   serialRecv, ctxDone>>
    /\ UNCHANGED runVars /\ UNCHANGED connVars
    /\ UNCHANGED flagVars

\* The context of the command (cmd.Context()) is cancelled: shutdown is
\* requested. Run and handleConnection use ctx only to get the logger.
EnvCancel ==
    /\ ~ctxDone
    /\ ctxDone' = TRUE
    /\ UNCHANGED <<backlog, clientClosed, clientData, serialData, serialSent>>
    /\ UNCHANGED runVars /\ UNCHANGED connVars
    /\ UNCHANGED <<clientSent, clientRecv, serialRecv>>
    /\ UNCHANGED flagVars

Next ==
    \/ OpenOK
    \/ OpenFail
    \/ ListenOK
    \/ ListenFail
    \/ DeferPortClose
    \/ AcceptFail
    \/ \E c \in Conns : AcceptOK(c)
    \/ \E c \in Conns : SetNoDelayOK(c)
    \/ \E c \in Conns : SetNoDelayFail(c)
    \/ \E c \in Conns : Recv1(c)
    \/ \E c \in Conns : Recv2(c)
    \/ \E c \in Conns : \E e \in {Nil, ErrConnClose} : ConnClose(c, e)
    \/ \E c \in Conns : Return(c)
    \/ \E c \in Conns : PortRead(c)
    \/ \E c \in Conns : PortReadErr(c)
    \/ \E c \in Conns : PortReadEOF(c)
    \/ \E c \in Conns : ConnWrite(c)
    \/ \E c \in Conns : ConnWriteErr(c)
    \/ \E c \in Conns : ConnRead(c)
    \/ \E c \in Conns : ConnReadEOF(c)
    \/ \E c \in Conns : ConnReadErr(c)
    \/ \E c \in Conns : PortWrite(c)
    \/ \E c \in Conns : PortWriteErr(c)
    \/ \E c \in Conns : \E d \in Dirs : Send(c, d)
    \/ EnvClientConnect
    \/ \E c \in Conns : EnvClientSend(c)
    \/ \E c \in Conns : EnvClientClose(c)
    \/ EnvSerialDeliver
    \/ EnvCancel

Spec == Init /\ [][Next]_vars

\* Every goroutine that can take a step eventually takes it.  What the
\* environment does (clients, serial device, I/O failures, cancellation) is
\* not subject to fairness.
Fairness ==
    /\ WF_vars(OpenOK \/ OpenFail)
    /\ WF_vars(ListenOK \/ ListenFail)
    /\ WF_vars(DeferPortClose)
    /\ \A c \in Conns :
        /\ WF_vars(AcceptOK(c))
        /\ WF_vars(SetNoDelayOK(c) \/ SetNoDelayFail(c))
        /\ WF_vars(Recv1(c))
        /\ WF_vars(Recv2(c))
        /\ WF_vars(\E e \in {Nil, ErrConnClose} : ConnClose(c, e))
        /\ WF_vars(Return(c))
        /\ WF_vars(PortRead(c))
        /\ WF_vars(ConnWrite(c) \/ ConnWriteErr(c))
        /\ WF_vars(ConnRead(c))
        /\ WF_vars(ConnReadEOF(c))
        /\ WF_vars(PortWrite(c) \/ PortWriteErr(c))
        /\ \A d \in Dirs : WF_vars(Send(c, d))

FairSpec == Init /\ [][Next]_vars /\ Fairness

\* ---- properties ----

\* handleConnection has been entered for c and has not returned, or one of
\* its copy tasks is still running.
Active(c) ==
    \/ hpc[c] \notin {"idle", "returned"}
    \/ \E d \in Dirs : task[c][d] \in {"read", "write", "send"}

\* Both copy tasks of c have delivered their result to errCh.
BothDelivered(c) == \A d \in Dirs : task[c][d] = "done"

C2_ClientCloseEndsCopier ==
    \A c \in Conns :
        (clientClosed[c] /\ hpc[c] \in {"recv1", "recv2", "close", "ret"}) ~>
            (/\ hpc[c] = "returned"
             /\ connCloses[c] = 1
             /\ port = "open"
             /\ pc = "accept")

\* C3: once shutdown is requested while the bridge is serving, Run eventually
\* returns having closed the Listener and the Serial Handle exactly once each,
\* and no Connection Copier stays active.
C3_ShutdownCompletes ==
    (ctxDone /\ pc \in {"accept", "handle"}) ~>
        (/\ pc = "returned"
         /\ listenerCloses = 1
         /\ portCloses = 1
         /\ \A c \in Conns : ~Active(c))

\* C4: if opening the serial port failed, Run has returned that error and no
\* Listener exists.
C4_NoListenerAfterOpenFailure ==
    port = "failed" =>
        /\ listener = "none"
        /\ listenerCloses = 0
        /\ pc = "returned"
        /\ runErr = ErrOpen

C4_Witness ==
    port = "failed" /\ pc = "returned"

\* C5: if net.Listen failed, then by the time Run has returned the listen
\* error the Serial Handle has been closed exactly once; no Listener is ever
\* closed and the accept loop is never entered.
C5_ListenFailureClosesPortOnce ==
    listener = "failed" =>
        /\ pc \in {"deferPort", "returned"}
        /\ portCloses <= 1
        /\ listenerCloses = 0
        /\ accepted = 0
        /\ acceptErrs = 0
        /\ pc = "returned" =>
            (port = "closed" /\ portCloses = 1 /\ runErr = ErrListen)

C5_Witness ==
    listener = "failed" /\ pc = "returned" /\ portCloses = 1

\* C6: a failed Accept leaves the accept loop at Accept with the Listener and
\* the Serial Handle open and starts no Connection Copier; after any number
\* of Accept errors the bridge is still serving.
C6_AcceptErrorContinues ==
    /\ [](acceptErrs > 0 =>
            (pc \in {"accept", "handle"} /\ listener = "open" /\ port = "open"))
    /\ [][acceptErrs' # acceptErrs =>
            (/\ pc' = "accept"
             /\ listener' = "open"
             /\ port' = "open"
             /\ accepted' = accepted
             /\ connVars' = connVars)]_vars

\* After an Accept error a connection has been accepted and handled to its
\* end.
C6_Witness ==
    /\ acceptErrs > 0
    /\ pc = "accept"
    /\ \E c \in Conns : hpc[c] = "returned" /\ connCloses[c] = 1

\* C7: the connection is not closed and handleConnection has not returned
\* while a copy task is still running: conn.Close is called only after both
\* copy tasks have delivered their result.
C7_CloseAfterBothCopies ==
    \A c \in Conns :
        /\ (hpc[c] \in {"close", "ret"} \/ connCloses[c] > 0) => BothDelivered(c)
        /\ hpc[c] = "returned" =>
            \A d \in Dirs : task[c][d] \notin {"read", "write", "send"}

\* One direction has finished first and handleConnection still waits for the
\* other one with the connection not closed.
C7_Witness ==
    \E c \in Conns : \E d1, d2 \in Dirs :
        /\ hpc[c] = "recv2"
        /\ task[c][d1] = "done"
        /\ task[c][d2] = "read"
        /\ connCloses[c] = 0

\* C8: on every return path of handleConnection conn.Close has been called
\* exactly once, and it is never called more than once.
C8_ClosedExactlyOnce ==
    \A c \in Conns :
        /\ connCloses[c] <= 1
        /\ hpc[c] = "returned" => connCloses[c] = 1

\* C9: once copying has started, the error handleConnection returns is nil
\* exactly when both copies and conn.Close reported no error, and it carries
\* every error that one of the three reported.
Reported(c) == {taskErr[c]["s2c"], taskErr[c]["c2s"], closeErr[c]}

C9_ErrorAggregation ==
    \A c \in Conns :
        hpc[c] = "ret" =>
            /\ (err[c] = Nil) <=> (\A e \in Reported(c) : e = Nil)
            /\ \A e \in Reported(c) : e # Nil => Carries(err[c], e)

\* All three reported an error and the connection-to-serial copy finished
\* first.
C9_Witness ==
    \E c \in Conns :
        /\ hpc[c] = "ret"
        /\ \A e \in Reported(c) : e # Nil
        /\ err[c][1] \in {"ErrConnRead", "ErrPortWrite"}

\* C10: no step of a Connection Copier changes the Serial Handle: the handle
\* is opened and closed only by steps of Run itself (serial.Open and the
\* deferred port.Close), which change nothing of any connection.
C10_CopierNeverClosesPort ==
    [][(port' # port \/ portCloses' # portCloses) =>
            (pc \in {"open", "deferPort"} /\ connVars' = connVars)]_vars

\* One connection has been copied to its end and closed, a second one is
\* about to return with errors, and the Serial Handle is still open.
C10_Witness ==
    /\ port = "open"
    /\ portCloses = 0
    /\ \E c1, c2 \in Conns :
        /\ hpc[c1] = "returned" /\ connCloses[c1] = 1
        /\ hpc[c2] = "ret" /\ err[c2] # Nil

\* C11: no per-connection failure ends the bridge: whenever handleConnection
\* returns, with whatever error, the accept loop is at Accept again with the
\* Listener and the Serial Handle open and never closed; Run has returned only
\* for a serial-open or a listen failure, before any connection was accepted.
C11_ConnectionErrorsContained ==
    /\ [](pc = "returned" => (runErr \in {ErrOpen, ErrListen} /\ accepted = 0))
    /\ [][\A c \in Conns :
            (hpc[c] # "returned" /\ hpc'[c] = "returned") =>
                (/\ pc' = "accept"
                 /\ listener' = "open" /\ listenerCloses' = 0
                 /\ port' = "open" /\ portCloses' = 0)]_vars

\* One connection has ended with a no-delay setup error and one with a copy or
\* close error, and the accept loop is at Accept.
C11_Witness ==
    /\ pc = "accept"
    /\ \E c1, c2 \in Conns :
        /\ hpc[c1] = "returned" /\ connCloses[c1] = 0
        /\ hpc[c2] = "returned" /\ connCloses[c2] = 1
        /\ connLog[c2][Len(connLog[c2])] = "Failed to handle connection"

\* C13: while a Connection Copier is active the Serial Handle is open, and
\* once startup has succeeded the Listener is open exactly when the Serial
\* Handle is open.
StartupSucceeded == listener \in {"open", "closed"}

C13_PortOutlivesCopiers ==
    /\ \A c \in Conns : Active(c) => port = "open"
    /\ StartupSucceeded => (listener = "open" <=> port = "open")

\* A copier is writing to the connection after an earlier connection was
\* handled to its end.
C13_Witness ==
    \E c1, c2 \in Conns :
        /\ hpc[c1] = "returned"
        /\ task[c2]["s2c"] = "write"
        /\ port = "open"

\* The events that end a connection in its log.
Terminal == {"Connection closed", "Failed to handle connection"}

Count(l, evs) == Cardinality({i \in 1..Len(l) : l[i] \in evs})

\* C16 (as stated): once handleConnection has returned, the log of the
\* connection shows exactly one "Accepted" event, at its start, and exactly
\* one terminal event.
C16_OneTerminalEvent ==
    \A c \in Conns :
        hpc[c] = "returned" =>
            /\ Count(connLog[c], {"Accepted"}) = 1
            /\ connLog[c][1] = "Accepted"
            /\ Count(connLog[c], Terminal) = 1

\* C16 (amended): every accepted connection logs exactly one "Accepted"
\* event, first of all and before any copying starts; no terminal event is
\* logged before handleConnection returns; after it has returned the log ends
\* with one or two terminal events: "Connection closed" exactly when the
\* connection was closed, and "Failed to handle connection" whenever the
\* no-delay setup failed, so that a copy or close error logs two.
C16_AcceptedThenTerminal ==
    /\ [](\A c \in Conns :
            /\ hpc[c] = "idle" => connLog[c] = << >>
            /\ hpc[c] # "idle" =>
                /\ Count(connLog[c], {"Accepted"}) = 1
                /\ connLog[c][1] = "Accepted"
            /\ hpc[c] = "nodelay" => connLog[c] = <<"Accepted">>
            /\ hpc[c] # "returned" => Count(connLog[c], Terminal) = 0
            /\ hpc[c] = "returned" =>
                /\ Count(connLog[c], Terminal) \in {1, 2}
                /\ Count(connLog[c], {"Connection closed"}) = connCloses[c]
                /\ Count(connLog[c], {"Failed to handle connection"}) <= 1
                /\ connCloses[c] = 0 =>
                    Count(connLog[c], {"Failed to handle connection"}) = 1
                /\ \A i \in 1..Len(connLog[c]) :
                    connLog[c][i] \in Terminal =>
                        \A j \in i..Len(connLog[c]) : connLog[c][j] \in Terminal)
    /\ [][\A c \in Conns :
            (hpc[c] = "ret" /\ hpc'[c] = "returned") =>
                (Count(connLog'[c], {"Failed to handle connection"}) = 1
                    <=> err[c] # Nil)]_vars

\* One connection has ended with a copy or close error and two terminal
\* events, another one with a no-delay setup failure and one.
C16_Witness ==
    \E c1, c2 \in Conns :
        /\ hpc[c1] = "returned" /\ Count(connLog[c1], Terminal) = 2
        /\ hpc[c2] = "returned" /\ connCloses[c2] = 0

\* Number of results handleConnection has received from errCh.
Received(c) ==
    CASE hpc[c] = "recv2" -> 1
      [] hpc[c] \in {"close", "ret"} -> 2
      [] hpc[c] = "returned" /\ connCloses[c] > 0 -> 2
      [] OTHER -> 0

\* C17: errCh never holds more than its capacity and never blocks a copy
\* task; every finished copy task has sent exactly one result and
\* handleConnection has received each of them at most once and both of them
\* before it closes the connection; after it has returned the channel is empty
\* and no copy task is running or waiting to send.
C17_ErrChDeliversEachResultOnce ==
    \A c \in Conns :
        /\ Len(errCh[c]) <= ErrChCap
        /\ Len(errCh[c]) + Received(c)
              = Cardinality({d \in Dirs : task[c][d] = "done"})
        /\ \A d \in Dirs : task[c][d] = "send" => Len(errCh[c]) < ErrChCap
        /\ (hpc[c] \in {"close", "ret"} \/ connCloses[c] > 0) =>
              (Received(c) = 2 /\ errCh[c] = << >>)
        /\ hpc[c] = "returned" =>
              /\ errCh[c] = << >>
              /\ \A d \in Dirs : task[c][d] \in {"idle", "done"}

\* Both copy tasks have sent their result before handleConnection received
\* one: the channel is full.
C17_Witness ==
    \E c \in Conns :
        /\ hpc[c] = "recv1"
        /\ Len(errCh[c]) = ErrChCap
        /\ \A d \in Dirs : task[c][d] = "done"

\* ---- one connection, the client sends B, the serial device yields S ----

MaxStream == 3       \* length of B and of S

S == [k \in 1..MaxStream |-> SerialByte(k)]
B == [k \in 1..MaxStream |-> ClientByte(k)]

\* The one client connects.
ScenarioConnect ==
    /\ accepted + backlog = 0
    /\ EnvClientConnect

\* The serial device yields the next byte of S.
ScenarioSerialYield ==
    /\ port = "open"
    /\ serialSent < Len(S)
    /\ serialData' = Append(serialData, S[serialSent + 1])
    /\ serialSent' = serialSent + 1
    /\ UNCHANGED <<backlog, clientClosed, clientData, clientSent, clientRecv,
                   serialRecv, ctxDone>>
    /\ UNCHANGED runVars /\ UNCHANGED connVars
    /\ UNCHANGED flagVars

\* The client sends the next byte of B on its accepted connection.
ScenarioClientSend(c) ==
    /\ c <= accepted
    /\ clientSent < Len(B)
    /\ clientData' = [clientData EXCEPT ![c] = Append(@, B[clientSent + 1])]
    /\ clientSent' = clientSent + 1
    /\ UNCHANGED <<backlog, clientClosed, clientRecv, serialData, serialSent,
                   serialRecv, ctxDone>>
    /\ UNCHANGED runVars /\ UNCHANGED connVars
    /\ UNCHANGED flagVars

\* The steps of the program when no I/O operation fails, with the
\* environment of the scenario.
DataNext ==
    \/ OpenOK
    \/ ListenOK
    \/ \E c \in Conns : AcceptOK(c)
    \/ \E c \in Conns : SetNoDelayOK(c)
    \/ \E c \in Conns : PortRead(c)
    \/ \E c \in Conns : ConnWrite(c)
    \/ \E c \in Conns : ConnRead(c)
    \/ \E c \in Conns : PortWrite(c)
    \/ ScenarioConnect
    \/ ScenarioSerialYield
    \/ \E c \in Conns : ScenarioClientSend(c)

\* Every goroutine that can take a step eventually takes it, the client
\* connects and sends all of B, and the device yields all of S.
DataFairness ==
    /\ WF_vars(OpenOK)
    /\ WF_vars(ListenOK)
    /\ WF_vars(ScenarioConnect)
    /\ WF_vars(ScenarioSerialYield)
    /\ \A c \in Conns :
        /\ WF_vars(AcceptOK(c))
        /\ WF_vars(SetNoDelayOK(c))
        /\ WF_vars(PortRead(c))
        /\ WF_vars(ConnWrite(c))
        /\ WF_vars(ConnRead(c))
        /\ WF_vars(PortWrite(c))
        /\ WF_vars(ScenarioClientSend(c))

DataSpec == Init /\ [][DataNext]_vars /\ DataFairness

IsPrefix(a, b) == Len(a) <= Len(b) /\ a = SubSeq(b, 1, Len(a))

\* C12: with one connection and no I/O errors, what the client has received
\* is at every moment a prefix of S and what the serial device has received a
\* prefix of B, and eventually the client has received exactly S and the
\* serial device exactly B.
C12_StreamsDelivered ==
    /\ [](\A c \in Conns : IsPrefix(clientRecv[c], S) /\ IsPrefix(serialRecv, B))
    /\ <>[](clientRecv[1] = S /\ serialRecv = B)

\* Both streams have been delivered in full and both copy tasks wait for
\* more.
C12_Witness ==
    /\ clientRecv[1] = S
    /\ serialRecv = B
    /\ \E c \in Conns : task[c]["s2c"] = "read" /\ task[c]["c2s"] = "read"

\* ---- flag parsing ----
\* Before Run is entered, each flag may be given a value any number of times:
\* pflag calls Set for a command-line argument and RootCmd.PersistentPreRun
\* calls it for an environment variable and drops the error it returns.

ParityWords == {<<"n", "o">>, <<"o", "d", "d">>, <<"e", "v", "e", "n">>,
                <<"m", "a", "r", "k">>, <<"s", "p", "a", "c", "e">>}
StopBitsWords == {<<"1">>, <<"1", ".", "5">>, <<"2">>}

RECURSIVE CaseVariants(_)
CaseVariants(w) ==
    IF w = << >> THEN {<< >>}
    ELSE {<<ch>> \o r : ch \in {ToLowerChar(Head(w)), ToUpperChar(Head(w))},
                        r \in CaseVariants(Tail(w))}

\* Strings neither Set method recognizes.
OtherWords == {<< >>, <<"x", "y", "z">>, <<"n", "o", "n", "e">>, <<"N">>,
               <<"o", "d", "d", " ">>, <<"0">>, <<"3">>, <<"1", ".", "0">>,
               <<"1", ",", "5">>, <<"1", "5">>, <<"t", "w", "o">>}

\* The strings the parity flag and the stop-bits flag are given.
ParityTokens ==
    UNION {CaseVariants(w) : w \in ParityWords} \cup OtherWords \cup {<<"1">>}
StopBitsTokens ==
    UNION {CaseVariants(w) : w \in StopBitsWords} \cup OtherWords
        \cup {<<"o", "d", "d">>}

BaudRates == {-1, 0, baudRateDefault}
DataBitsValues == {4, 5, 8, 9}

FlagInit ==
    /\ pc = "flags"
    /\ port = "unopened"
    /\ portCloses = 0
    /\ listener = "none"
    /\ listenerCloses = 0
    /\ runErr = Nil
    /\ acceptErrs = 0
    /\ accepted = 0
    /\ backlog = << >>
    /\ hpc = [c \in Conns |-> "idle"]
    /\ task = [c \in Conns |-> [d \in Dirs |-> "idle"]]
    /\ taskErr = [c \in Conns |-> [d \in Dirs |-> Nil]]
    /\ errCh = [c \in Conns |-> << >>]
    /\ err = [c \in Conns |-> Nil]
    /\ connCloses = [c \in Conns |-> 0]
    /\ closeErr = [c \in Conns |-> Nil]
    /\ connLog = [c \in Conns |-> << >>]
    /\ buf = [c \in Conns |-> [d \in Dirs |-> << >>]]
    /\ clientClosed = [c \in Conns |-> FALSE]
    /\ clientData = [c \in Conns |-> << >>]
    /\ clientSent = 0
    /\ clientRecv = [c \in Conns |-> << >>]
    /\ serialData = << >>
    /\ serialSent = 0
    /\ serialRecv = << >>
    /\ ctxDone = FALSE
    /\ parity = NoParity
    /\ stopBits = OneStopBit
    /\ baudRate = baudRateDefault
    /\ dataBits = dataBitsDefault
    /\ flagName = ""
    /\ flagTok = << >>
    /\ flagErr = Nil

\* parity.Set(t)
ParitySet(t) ==
    /\ pc = "flags"
    /\ parity' = ParitySetValue(parity, t)
    /\ flagErr' = ParitySetErr(t)
    /\ flagName' = "parity"
    /\ flagTok' = t
    /\ UNCHANGED <<stopBits, baudRate, dataBits>>
    /\ UNCHANGED <<runVars, connVars, envVars>>

\* stopBits.Set(t)
StopBitsSet(t) ==
    /\ pc = "flags"
    /\ stopBits' = StopBitsSetValue(stopBits, t)
    /\ flagErr' = StopBitsSetErr(t)
    /\ flagName' = "stop-bits"
    /\ flagTok' = t
    /\ UNCHANGED <<parity, baudRate, dataBits>>
    /\ UNCHANGED <<runVars, connVars, envVars>>

\* --baud-rate n: an int flag stores whatever integer it is given.
BaudRateSet(n) ==
    /\ pc = "flags"
    /\ baudRate' = n
    /\ flagErr' = Nil
    /\ flagName' = "baud-rate"
    /\ flagTok' = << >>
    /\ UNCHANGED <<parity, stopBits, dataBits>>
    /\ UNCHANGED <<runVars, connVars, envVars>>

\* --data-bits n: an int flag stores whatever integer it is given.
DataBitsSet(n) ==
    /\ pc = "flags"
    /\ dataBits' = n
    /\ flagErr' = Nil
    /\ flagName' = "data-bits"
    /\ flagTok' = << >>
    /\ UNCHANGED <<parity, stopBits, baudRate>>
    /\ UNCHANGED <<runVars, connVars, envVars>>

\* Run is entered: it builds mode from the flag variables as they are and
\* goes on to serial.Open.
RunStart ==
    /\ pc = "flags"
    /\ pc' = "open"
    /\ UNCHANGED <<port, portCloses, listener, listenerCloses, runErr,
                   acceptErrs, accepted>>
    /\ UNCHANGED <<connVars, envVars, flagVars>>

FlagNext ==
    \/ \E t \in ParityTokens : ParitySet(t)
    \/ \E t \in StopBitsTokens : StopBitsSet(t)
    \/ \E n \in BaudRates : BaudRateSet(n)
    \/ \E n \in DataBitsValues : DataBitsSet(n)
    \/ RunStart
    \/ OpenOK
    \/ OpenFail

FlagSpec == FlagInit /\ [][FlagNext]_vars

\* a and b are equal when letter case is ignored.
EqualFold(a, b) ==
    /\ Len(a) = Len(b)
    /\ \A i \in 1..Len(a) : ToLowerChar(a[i]) = ToLowerChar(b[i])

Recognized(t, words) == \E w \in words : EqualFold(t, w)

\* C14: a Set call of the parity or the stop-bits flag with a string that is
\* none of the flag's words, letter case ignored, returns an error and leaves
\* the flag's value as it was.
C14_UnrecognizedTokenRejected ==
    [][/\ (pc' = "flags" /\ flagName' = "parity"
              /\ ~Recognized(flagTok', ParityWords))
          => (flagErr' # Nil /\ parity' = parity)
       /\ (pc' = "flags" /\ flagName' = "stop-bits"
              /\ ~Recognized(flagTok', StopBitsWords))
          => (flagErr' # Nil /\ stopBits' = stopBits)]_vars

\* Parity was set to odd and stop bits to 2, and a later Set of the stop-bits
\* flag with the string 3 failed and left both as they were.
C14_Witness ==
    /\ pc = "flags"
    /\ flagName = "stop-bits"
    /\ flagTok = <<"3">>
    /\ flagErr = ErrInvalidStopBits
    /\ stopBits = TwoStopBits
    /\ parity = OddParity

\* C15: serial.Open is called only with a positive baud rate and a data-bit
\* count of 5, 6, 7 or 8.
C15_InvalidConfigurationNeverOpened ==
    pc \notin {"flags", "open"} => (baudRate > 0 /\ dataBits \in {5, 6, 7, 8})

\* C18: Set applied to the String of a valid value succeeds and stores that
\* value, and after a Set call that succeeded String returns the string the
\* call was given, in lower case.
C18_SetStringInverse ==
    /\ \A p \in {NoParity, OddParity, EvenParity, MarkParity, SpaceParity} :
        /\ ParitySetErr(ParityString(p)) = Nil
        /\ ParitySetValue(parity, ParityString(p)) = p
    /\ \A b \in {OneStopBit, OnePointFiveStopBits, TwoStopBits} :
        /\ StopBitsSetErr(StopBitsString(b)) = Nil
        /\ StopBitsSetValue(stopBits, StopBitsString(b)) = b
    /\ (flagName = "parity" /\ flagErr = Nil)
        => ParityString(parity) = ToLower(flagTok)
    /\ (flagName = "stop-bits" /\ flagErr = Nil)
        => StopBitsString(stopBits) = ToLower(flagTok)

\* The parity flag was set from a string in mixed letter case while the
\* stop-bits flag held a value other than its default.
C18_Witness ==
    /\ flagName = "parity"
    /\ flagErr = Nil
    /\ flagTok = <<"S", "p", "A", "c", "E">>
    /\ parity = SpaceParity
    /\ stopBits = OnePointFiveStopBits

====
